---- MODULE Spec2Model ----
(***************************************************************************)
(* PDF2PDF prototype: the translation stage of the layout-aware pipeline   *)
(* (tools/translate_il_v2.py, run by backend_wrapper, and its predecessor  *)
(* tools/translate_il.py), followed by the renderer's block filters        *)
(* (tools/render_pdf_v2.py).                                               *)
(*                                                                         *)
(* Text is a sequence of Unicode code points.  A block id is a pair        *)
(* <<page_index, k>>; the extractors derive ids from the page index and    *)
(* the block's geometry.  Pages are 1-based positions in the sequences of  *)
(* this module; page_index is the 0-based field of the page.               *)
(***************************************************************************)
EXTENDS Integers, Sequences, FiniteSets, TLC

\* ---------------------------------------------------------------- bounds
MaxPages == 2
MaxItems == 2

\* ------------------------------------------------------ program constants
max_retries == 5
InterPageDelay == 3
CJK_LO == 19968
CJK_HI == 40959
NL == 10
SP == 32
LBRACKET == 91

\* ----------------------------------------------------------------- state
VARIABLES
    impl,               \* "v2": translate_il_v2.py, "v1": translate_il.py
    il,                 \* intermediate_layer.json as the stage found it
    data,               \* the loaded document (v1 rewrites it in place)
    out_pages,          \* output_data["pages"] (v2)
    written,            \* translated_layer.json
    failed_pages,
    total_blocks,
    translated_blocks,
    pidx,               \* position of the page the loop is at
    pc,
    batch,              \* translatable (v2) / batch_blocks (v1) of the page
    attempt,            \* the retry loop's index
    calls,              \* service calls made for the page
    resp,               \* what the last service call came back with
    result,             \* what translate_page_blocks / translate_batch returned
    waits,              \* time.sleep calls of the retry loop, in order
    idle,               \* seconds slept since the last service call
    callGap,            \* the first service call of the last page called for: the page called
                        \* for before it, its own page, and the seconds slept in between
    ridx,               \* the renderer's page_idx + 1
    redacted,           \* ids given to add_redact_annot
    typeset             \* ids given to insert_textbox

\* the translation stage and the renderer's block filters
transVars == <<impl, il, data, out_pages, written, failed_pages, total_blocks,
               translated_blocks, pidx, pc, batch, attempt, calls, resp, result,
               waits, idle, callGap, ridx, redacted, typeset>>

VARIABLES
    h_in,               \* a block as classify_block and the sizing heuristic see it
    h_type,             \* what classify_block returned
    h_size              \* the start size the renderer computed

heurVars == <<h_in, h_type, h_size>>

VARIABLES
    raw,                \* the text blocks of somatosensory.pdf, page by page
    fs,                 \* the files of the working directory
    stage,              \* where the run of the tools is
    reads,              \* the files the stages have opened for reading, in order
    rpage,              \* the renderer's page_idx
    rblock,             \* position of the renderer's block in the page
    fit,                \* largest size at which insert_textbox lays the block out
    fontsize,
    target_size,
    rendering_log,
    drawn,              \* the insert_textbox calls that put text on a page
    report              \* what validate_rendering counted

pipeVars == <<raw, fs, stage, reads, rpage, rblock, fit, fontsize, target_size,
              rendering_log, drawn, report>>

VARIABLES
    session_state,      \* st.session_state: step, uploaded_file, config, result, chat_history
    environ,            \* what the application finds around it: fonts/, the API key, the demo file
    wpc,                \* where the call of run_pipeline_subprocess is
    running,            \* the tool subprocess.run is waiting for
    temp_dir,           \* the directory made by tempfile.mkdtemp
    runs,               \* the tool runs of the call that have ended, in order
    outcome,            \* how the call ended: "returned" or "raised"
    project_output      \* translated_output.pdf was written by the call

appVars == <<session_state, environ, wpc, running, temp_dir, runs, outcome,
             project_output>>

vars == <<transVars, heurVars, pipeVars, appVars>>

pageVars == <<batch, attempt, calls, resp, result, waits>>
renderVars == <<ridx, redacted, typeset>>

\* ------------------------------------------------------------ block types
V2Types == {"body", "heading", "caption", "sidebar", "label", "table", "footer", "header"}
V1Types == {"body", "heading", "caption", "chart", "table", "footer", "header", "sidebar", "label"}
NonTextTypes == {"image", "chart"}

\* ------------------------------------------------------------------ text
\* str.isspace(): what str.strip() without arguments removes.
IsSpace(c) ==
    c \in (9..13) \cup (28..32) \cup {133, 160, 5760, 8232, 8233, 8239, 8287, 12288}
          \cup (8192..8202)

RECURSIVE LStrip(_)
LStrip(s) == IF s # <<>> /\ IsSpace(Head(s)) THEN LStrip(Tail(s)) ELSE s

RECURSIVE RStrip(_)
RStrip(s) ==
    IF s # <<>> /\ IsSpace(s[Len(s)]) THEN RStrip(SubSeq(s, 1, Len(s) - 1)) ELSE s

Strip(s) == RStrip(LStrip(s))

\* text.replace("\n", " ")
ReplaceNL(s) == [i \in DOMAIN s |-> IF s[i] = NL THEN SP ELSE s[i]]

\* translate_page_blocks: result_dict[id].strip().replace("\n", " ")
V2Clean(s) == ReplaceNL(Strip(s))

\* render_pdf_v2.clean_text: text.replace("\n", " ").strip()
clean_text(s) == IF s = <<>> THEN <<>> ELSE Strip(ReplaceNL(s))

\* content.startswith("[")
StartsWithBracket(s) == s # <<>> /\ s[1] = LBRACKET

\* ------------------------------------------------------- input documents
TextA == <<65>>
TextBracketB == <<LBRACKET, 66>>
TextChart == <<67, NL, 68>>
TextImage == <<LBRACKET, 73>>
TextZh == <<NL, 20013, NL, 25991, SP>>
TextEn == <<72, 105>>
TextBlank == <<SP>>

KBody == [type |-> "body", content |-> TextA]
KHeading == [type |-> "heading", content |-> TextBracketB]
KChart == [type |-> "chart", content |-> TextChart]
KImage == [type |-> "image", content |-> TextImage]
KEmpty == [type |-> "body", content |-> <<>>]

\* The pages a document is drawn from: a text block beside a chart that
\* carries text, two text blocks (one starting with "["), and a page with
\* nothing translatable (an image placeholder and an empty block).
PageTemplates == { <<KBody, KChart>>, <<KBody, KHeading>>, <<KImage, KEmpty>> }

MakeBlock(p, k, kind) ==
    [id |-> <<p, k>>,
     type |-> kind.type,
     bbox |-> <<50 * k, 100 * k + p, 50 * k + 200, 100 * k + p + 20>>,
     content |-> kind.content,
     style |-> [size |-> 9 + k, color |-> k, bold |-> (k = 1)],
     metadata |-> [page |-> p, width |-> 200, height |-> 20]]

MakePage(p, tpl) ==
    [page_index |-> p,
     width |-> 600 + p,
     height |-> 800 + p,
     blocks |-> [k \in DOMAIN tpl |-> MakeBlock(p, k, tpl[k])]]

Documents ==
    UNION { { [i \in 1..n |-> MakePage(i - 1, f[i])] : f \in [1..n -> PageTemplates] }
            : n \in 1..MaxPages }

\* ------------------------------------------------- the translation service
ForeignId == <<0, 0>>

\* What one call of client.chat.completions.create can come back with for the
\* page at position p: an exception (rate limit or other), or a JSON object
\* whose translated_blocks is a list of items.  An item names a block of the
\* page or a foreign id, carries translated, untranslated or blank text, and
\* may lack "content".
BlockIdAt(p, doc, k) == IF k \in DOMAIN doc[p].blocks THEN doc[p].blocks[k].id ELSE ForeignId

Items(p, doc) ==
    { [id |-> BlockIdAt(p, doc, 1), content |-> TextZh],
      [id |-> BlockIdAt(p, doc, 2), content |-> TextZh],
      [id |-> BlockIdAt(p, doc, 1), content |-> TextEn],
      [id |-> ForeignId, content |-> TextEn],
      [id |-> BlockIdAt(p, doc, 2), content |-> TextBlank],
      [id |-> BlockIdAt(p, doc, 1)] }

ItemLists(p, doc) == UNION { [1..n -> Items(p, doc)] : n \in 0..MaxItems }

NoResp == [kind |-> "none", msg |-> "", translated_blocks |-> <<>>]
ErrorResp(m) == [kind |-> "error", msg |-> m, translated_blocks |-> <<>>]
JsonResp(tr) == [kind |-> "json", msg |-> "", translated_blocks |-> tr]

Responses(p, doc) ==
    {ErrorResp("429 rate limit"), ErrorResp("connection error")}
    \cup {JsonResp(tr) : tr \in ItemLists(p, doc)}

\* ------------------------------------------- translate_page_blocks / batch
\* block.get('content', '')
ItemContent(item) == IF "content" \in DOMAIN item THEN item.content ELSE <<>>

\* Variant: any non-empty content counts as a translation
HasAnyContent(translated) ==
    \E i \in DOMAIN translated : ItemContent(translated[i]) # <<>>

has_chinese(translated) ==
    \E i \in DOMAIN translated :
        \E j \in DOMAIN ItemContent(translated[i]) :
            /\ CJK_LO <= ItemContent(translated[i])[j]
            /\ ItemContent(translated[i])[j] <= CJK_HI

\* Variant: a cardinality mismatch raises as well
ValidationRaisesOnMismatch(translated) ==
    translated = <<>> \/ ~has_chinese(translated) \/ Len(translated) # Len(batch)

\* the two ValueErrors raised on the parsed response
ValidationRaises(translated) == translated = <<>> \/ ~has_chinese(translated)

\* {item["id"]: item["content"] for item in ...} raises KeyError on a missing key
DictRaises(translated) ==
    \E i \in DOMAIN translated : ~({"id", "content"} \subseteq DOMAIN translated[i])

\* the dict comprehension: a repeated id keeps its last content
LastIndexOf(translated, id) ==
    CHOOSE i \in DOMAIN translated :
        /\ translated[i].id = id
        /\ \A j \in DOMAIN translated : translated[j].id = id => j <= i

result_dict(translated) ==
    [id \in {translated[i].id : i \in DOMAIN translated} |->
        translated[LastIndexOf(translated, id)].content]

Translatable(blocks) ==
    SelectSeq(blocks, LAMBDA b : b.type \in V2Types /\ b.content # <<>>)

BatchBlocks(blocks) ==
    SelectSeq(blocks, LAMBDA b : /\ b.type \in V1Types
                                 /\ b.content # <<>>
                                 /\ ~StartsWithBracket(b.content))

Payload(blocks) ==
    [i \in DOMAIN blocks |->
        [id |-> blocks[i].id, type |-> blocks[i].type, content |-> blocks[i].content]]

\* Variant: the block is rebuilt with a default style
MergedBlockDefaultStyle(block, text) ==
    [id |-> block.id,
     type |-> block.type,
     bbox |-> block.bbox,
     content |-> text,
     style |-> [size |-> 10, color |-> 0, bold |-> FALSE],
     metadata |-> block.metadata]

MergedBlock(block, text) ==
    [id |-> block.id,
     type |-> block.type,
     bbox |-> block.bbox,
     content |-> text,
     style |-> block.style,
     metadata |-> block.metadata]

\* Variant: one output block per response item, in the order of the response
MergePerResponseItem(translatable, translated) ==
    [i \in DOMAIN translated |->
        MergedBlock([translatable[1] EXCEPT !.id = translated[i].id],
                    V2Clean(translated[i].content))]

MergeTranslations(translatable, translated) ==
    LET d == result_dict(translated)
        kept == SelectSeq(translatable, LAMBDA b : b.id \in DOMAIN d)
    IN  [i \in DOMAIN kept |-> MergedBlock(kept[i], V2Clean(d[kept[i].id]))]

\* translate_il.main: block["content"] = trans_map[block["id"]] on every
\* block of the page whose id is in the map
ApplyTransMap(blocks, translated) ==
    LET d == result_dict(translated)
    IN  [i \in DOMAIN blocks |->
            IF blocks[i].id \in DOMAIN d
            THEN [blocks[i] EXCEPT !.content = d[blocks[i].id]]
            ELSE blocks[i]]

TranslatedCount(blocks, translated) ==
    Cardinality({i \in DOMAIN blocks : blocks[i].id \in DOMAIN result_dict(translated)})

\* 2 ** attempt
RECURSIVE Pow2(_)
Pow2(n) == IF n = 0 THEN 1 ELSE 2 * Pow2(n - 1)

\* Variant: a linear backoff
BackoffLinear(n) == n + 1

BackoffDelay(n) == Pow2(n)

\* A response is accepted when neither the validation nor (in v2, where the
\* merge is inside the try) the merge raises.
AcceptedV2(r) ==
    /\ r.kind = "json"
    /\ ~ValidationRaises(r.translated_blocks)
    /\ ~DictRaises(r.translated_blocks)

AcceptedV1(r) ==
    /\ r.kind = "json"
    /\ ~ValidationRaises(r.translated_blocks)

Unset == [kind |-> "unset", blocks |-> <<>>]
None == [kind |-> "none", blocks |-> <<>>]
Blocks(bs) == [kind |-> "blocks", blocks |-> bs]

NoFile == [exists |-> FALSE, pages |-> <<>>]
File(pages) == [exists |-> TRUE, pages |-> pages]

\* Each specification of this module runs one part of the program; the
\* variables of the other parts keep these values.
TransIdle ==
    /\ impl = "v2" /\ il = <<>> /\ data = <<>> /\ out_pages = <<>>
    /\ written = NoFile /\ failed_pages = <<>>
    /\ total_blocks = 0 /\ translated_blocks = 0
    /\ pidx = 1 /\ pc = "off"
    /\ batch = <<>> /\ attempt = 0 /\ calls = 0 /\ resp = NoResp
    /\ result = Unset /\ waits = <<>> /\ idle = 0
    /\ callGap = [from |-> 0, to |-> 0, gap |-> 0]
    /\ ridx = 1 /\ redacted = {} /\ typeset = {}

HeurIdle == h_in = <<>> /\ h_type = "" /\ h_size = 0

PipeIdle ==
    /\ raw = <<>> /\ fs = <<>> /\ stage = "off" /\ reads = <<>>
    /\ rpage = 0 /\ rblock = 0 /\ fit = 0 /\ fontsize = 0 /\ target_size = 0
    /\ rendering_log = <<>> /\ drawn = <<>> /\ report = <<>>

AppIdle ==
    /\ session_state = <<>> /\ environ = <<>> /\ wpc = "off" /\ running = ""
    /\ temp_dir = <<>> /\ runs = <<>> /\ outcome = "" /\ project_output = FALSE

Init ==
    /\ impl \in {"v1", "v2"}
    /\ il \in Documents
    /\ data = il
    /\ out_pages = <<>>
    /\ written = NoFile
    /\ failed_pages = <<>>
    /\ total_blocks = 0
    /\ translated_blocks = 0
    /\ pidx = 1
    /\ pc = "loop"
    /\ batch = <<>>
    /\ attempt = 0
    /\ calls = 0
    /\ resp = NoResp
    /\ result = Unset
    /\ waits = <<>>
    /\ idle = 0
    /\ callGap = [from |-> 0, to |-> 0, gap |-> 0]
    /\ ridx = 1
    /\ redacted = {}
    /\ typeset = {}
    /\ HeurIdle
    /\ PipeIdle
    /\ AppIdle

LastPage == Len(data)

\* ------------------------------------------------- translate_il_v2 (v2)
\* for page_data in data["pages"]: translate_page_blocks is entered; with
\* nothing translatable it returns [] without a service call.
StartPageV2 ==
    /\ impl = "v2" /\ pc = "loop" /\ pidx <= LastPage
    /\ batch' = Translatable(data[pidx].blocks)
    /\ attempt' = 0 /\ calls' = 0 /\ resp' = NoResp /\ waits' = <<>>
    /\ IF batch' = <<>>
       THEN result' = Blocks(<<>>) /\ pc' = "returned"
       ELSE result' = Unset /\ pc' = "retry"
    /\ UNCHANGED <<impl, il, data, out_pages, written, failed_pages, total_blocks,
                   translated_blocks, pidx, idle, callGap>>
    /\ UNCHANGED renderVars
    /\ UNCHANGED <<heurVars, pipeVars, appVars>>

\* the head of one pass of the retry loop: client.chat.completions.create
CallServiceV2 ==
    /\ impl = "v2" /\ pc = "retry" /\ attempt < max_retries
    /\ resp' \in Responses(pidx, data)
    /\ calls' = calls + 1
    /\ callGap' = IF callGap.to = pidx THEN callGap
                  ELSE [from |-> callGap.to, to |-> pidx, gap |-> idle]
    /\ idle' = 0
    /\ pc' = "called"
    /\ UNCHANGED <<impl, il, data, out_pages, written, failed_pages, total_blocks,
                   translated_blocks, pidx, batch, attempt, result, waits>>
    /\ UNCHANGED renderVars
    /\ UNCHANGED <<heurVars, pipeVars, appVars>>

\* the rest of the try block: the response is validated and merged
AttemptAcceptedV2 ==
    /\ impl = "v2" /\ pc = "called"
    /\ AcceptedV2(resp)
    /\ result' = Blocks(MergeTranslations(batch, resp.translated_blocks))
    /\ pc' = "returned"
    /\ UNCHANGED <<impl, il, data, out_pages, written, failed_pages, total_blocks,
                   translated_blocks, pidx, batch, attempt, calls, resp, waits,
                   idle, callGap>>
    /\ UNCHANGED renderVars
    /\ UNCHANGED <<heurVars, pipeVars, appVars>>

\* the validation or the merge raised, or the call itself did: control is in
\* the except clause
AttemptRaisedV2 ==
    /\ impl = "v2" /\ pc = "called"
    /\ ~AcceptedV2(resp)
    /\ pc' = "except"
    /\ UNCHANGED <<impl, il, data, out_pages, written, failed_pages, total_blocks,
                   translated_blocks, pidx, idle, callGap>>
    /\ UNCHANGED pageVars
    /\ UNCHANGED renderVars
    /\ UNCHANGED <<heurVars, pipeVars, appVars>>

\* the except clause: the rate-limit branch and the other branch both sleep
\* 2 ** attempt and go on to the next pass; after the last pass the function
\* returns None
BackoffV2 ==
    /\ impl = "v2" /\ pc = "except"
    /\ waits' = Append(waits, [after |-> attempt, secs |-> BackoffDelay(attempt)])
    /\ idle' = idle + BackoffDelay(attempt)
    /\ attempt' = attempt + 1
    /\ resp' = NoResp
    /\ IF attempt + 1 = max_retries
       THEN result' = None /\ pc' = "returned"
       ELSE result' = Unset /\ pc' = "retry"
    /\ UNCHANGED <<impl, il, data, out_pages, written, failed_pages, total_blocks,
                   translated_blocks, pidx, batch, calls, callGap>>
    /\ UNCHANGED renderVars
    /\ UNCHANGED <<heurVars, pipeVars, appVars>>

\* Variant: a failed page is emitted without its blocks
FailedPageEntryEmptied(page_data) == [page_data EXCEPT !.blocks = <<>>]

\* output_data["pages"].append(page_data)
FailedPageEntry(page_data) == page_data

\* the page entry built for a translated page
TranslatedPageEntry(page_data, blocks) ==
    [page_index |-> page_data.page_index,
     width |-> page_data.width,
     height |-> page_data.height,
     blocks |-> blocks]

\* the body of the page loop after translate_page_blocks returned
HandleResultV2 ==
    /\ impl = "v2" /\ pc = "returned"
    /\ IF result = None
       THEN /\ failed_pages' = Append(failed_pages, data[pidx].page_index + 1)
            /\ out_pages' = Append(out_pages, FailedPageEntry(data[pidx]))
            /\ translated_blocks' = translated_blocks
       ELSE /\ failed_pages' = failed_pages
            /\ out_pages' = Append(out_pages, TranslatedPageEntry(data[pidx], result.blocks))
            /\ translated_blocks' = translated_blocks + Len(result.blocks)
    /\ total_blocks' = total_blocks + Len(data[pidx].blocks)
    /\ pidx' = pidx + 1
    /\ pc' = "loop"
    /\ UNCHANGED <<impl, il, data, written, idle, callGap>>
    /\ UNCHANGED pageVars
    /\ UNCHANGED renderVars
    /\ UNCHANGED <<heurVars, pipeVars, appVars>>

\* json.dump(output_data, ...)
SaveV2 ==
    /\ impl = "v2" /\ pc = "loop" /\ pidx > LastPage
    /\ written' = File(out_pages)
    /\ pc' = "render"
    /\ UNCHANGED <<impl, il, data, out_pages, failed_pages, total_blocks,
                   translated_blocks, pidx, idle, callGap>>
    /\ batch' = <<>> /\ attempt' = 0 /\ calls' = 0 /\ resp' = NoResp
    /\ result' = Unset /\ waits' = <<>>
    /\ UNCHANGED renderVars
    /\ UNCHANGED <<heurVars, pipeVars, appVars>>

\* --------------------------------------------------- translate_il (v1)
\* main(): the head of the page loop; `attempt` is the index of the next pass
\* of translate_batch's retry loop.  A page with no batch_blocks goes straight
\* to the inter-page delay.
StartPageV1 ==
    /\ impl = "v1" /\ pc = "loop" /\ pidx <= LastPage
    /\ batch' = BatchBlocks(data[pidx].blocks)
    /\ total_blocks' = total_blocks + Len(batch')
    /\ attempt' = 0 /\ calls' = 0 /\ resp' = NoResp /\ waits' = <<>>
    /\ result' = Unset
    /\ IF batch' = <<>>
       THEN /\ idle' = IF pidx < LastPage THEN idle + InterPageDelay ELSE idle
            /\ pidx' = pidx + 1
            /\ pc' = "loop"
       ELSE /\ idle' = idle
            /\ pidx' = pidx
            /\ pc' = "retry"
    /\ UNCHANGED <<impl, il, data, out_pages, written, failed_pages,
                   translated_blocks, callGap>>
    /\ UNCHANGED renderVars
    /\ UNCHANGED <<heurVars, pipeVars, appVars>>

\* translate_batch: the head of one pass of the retry loop
CallServiceV1 ==
    /\ impl = "v1" /\ pc = "retry" /\ attempt < max_retries
    /\ resp' \in Responses(pidx, data)
    /\ calls' = calls + 1
    /\ callGap' = IF callGap.to = pidx THEN callGap
                  ELSE [from |-> callGap.to, to |-> pidx, gap |-> idle]
    /\ idle' = 0
    /\ pc' = "called"
    /\ UNCHANGED <<impl, il, data, out_pages, written, failed_pages, total_blocks,
                   translated_blocks, pidx, batch, attempt, result, waits>>
    /\ UNCHANGED renderVars
    /\ UNCHANGED <<heurVars, pipeVars, appVars>>

\* translate_batch: a response that passes the validation is returned as is
AttemptAcceptedV1 ==
    /\ impl = "v1" /\ pc = "called"
    /\ AcceptedV1(resp)
    /\ result' = Blocks(resp.translated_blocks)
    /\ pc' = "returned"
    /\ UNCHANGED <<impl, il, data, out_pages, written, failed_pages, total_blocks,
                   translated_blocks, pidx, batch, attempt, calls, resp, waits,
                   idle, callGap>>
    /\ UNCHANGED renderVars
    /\ UNCHANGED <<heurVars, pipeVars, appVars>>

\* translate_batch: the validation raised, or the call itself did
AttemptRaisedV1 ==
    /\ impl = "v1" /\ pc = "called"
    /\ ~AcceptedV1(resp)
    /\ pc' = "except"
    /\ UNCHANGED <<impl, il, data, out_pages, written, failed_pages, total_blocks,
                   translated_blocks, pidx, idle, callGap>>
    /\ UNCHANGED pageVars
    /\ UNCHANGED renderVars
    /\ UNCHANGED <<heurVars, pipeVars, appVars>>

\* translate_batch: the except clause sleeps 2 ** attempt unless the pass was
\* the last one, which returns None at once
BackoffV1 ==
    /\ impl = "v1" /\ pc = "except"
    /\ attempt' = attempt + 1
    /\ resp' = NoResp
    /\ IF attempt < max_retries - 1
       THEN /\ waits' = Append(waits, [after |-> attempt, secs |-> BackoffDelay(attempt)])
            /\ idle' = idle + BackoffDelay(attempt)
            /\ result' = Unset
            /\ pc' = "retry"
       ELSE /\ waits' = waits
            /\ idle' = idle
            /\ result' = None
            /\ pc' = "returned"
    /\ UNCHANGED <<impl, il, data, out_pages, written, failed_pages, total_blocks,
                   translated_blocks, pidx, batch, calls, callGap>>
    /\ UNCHANGED renderVars
    /\ UNCHANGED <<heurVars, pipeVars, appVars>>

\* main(): translated_result is None: the page is recorded and `continue`
\* skips the merge and the inter-page delay
SkipFailedPageV1 ==
    /\ impl = "v1" /\ pc = "returned" /\ result = None
    /\ failed_pages' = Append(failed_pages, pidx)
    /\ pidx' = pidx + 1
    /\ pc' = "loop"
    /\ UNCHANGED <<impl, il, data, out_pages, written, total_blocks,
                   translated_blocks, idle, callGap>>
    /\ UNCHANGED pageVars
    /\ UNCHANGED renderVars
    /\ UNCHANGED <<heurVars, pipeVars, appVars>>

\* main(): building trans_map raises KeyError outside any try; main ends
\* there and json.dump is never reached
MergeCrashV1 ==
    /\ impl = "v1" /\ pc = "returned" /\ result # None
    /\ DictRaises(result.blocks)
    /\ pc' = "crashed"
    /\ UNCHANGED <<impl, il, data, out_pages, written, failed_pages, total_blocks,
                   translated_blocks, pidx, idle, callGap>>
    /\ UNCHANGED pageVars
    /\ UNCHANGED renderVars
    /\ UNCHANGED <<heurVars, pipeVars, appVars>>

\* main(): steps 3 to 5, the merge into the loaded page and the delay
MergePageV1 ==
    /\ impl = "v1" /\ pc = "returned" /\ result # None
    /\ ~DictRaises(result.blocks)
    /\ data' = [data EXCEPT ![pidx].blocks = ApplyTransMap(data[pidx].blocks, result.blocks)]
    /\ translated_blocks' = translated_blocks
                            + TranslatedCount(data[pidx].blocks, result.blocks)
    /\ idle' = IF pidx < LastPage THEN idle + InterPageDelay ELSE idle
    /\ pidx' = pidx + 1
    /\ pc' = "loop"
    /\ UNCHANGED <<impl, il, out_pages, written, failed_pages, total_blocks, callGap>>
    /\ UNCHANGED pageVars
    /\ UNCHANGED renderVars
    /\ UNCHANGED <<heurVars, pipeVars, appVars>>

\* json.dump(data, ...)
SaveV1 ==
    /\ impl = "v1" /\ pc = "loop" /\ pidx > LastPage
    /\ written' = File(data)
    /\ pc' = "render"
    /\ UNCHANGED <<impl, il, data, out_pages, failed_pages, total_blocks,
                   translated_blocks, pidx, idle, callGap>>
    /\ batch' = <<>> /\ attempt' = 0 /\ calls' = 0 /\ resp' = NoResp
    /\ result' = Unset /\ waits' = <<>>
    /\ UNCHANGED renderVars
    /\ UNCHANGED <<heurVars, pipeVars, appVars>>

\* ------------------------------------------------ the renderer's filters
\* next((p for p in data["pages"] if p["page_index"] == page_idx), None)
PageData(pages, page_idx) ==
    LET hits == {i \in DOMAIN pages : pages[i].page_index = page_idx}
    IN  IF hits = {} THEN <<>>
        ELSE pages[CHOOSE i \in hits : \A j \in hits : i <= j].blocks

\* the redaction pass: add_redact_annot
Redactable(b) == b.type \notin NonTextTypes /\ b.content # <<>>

\* the typesetting pass: every block that reaches the fitting loop
Typesettable(b) == b.type \notin NonTextTypes /\ clean_text(b.content) # <<>>

RedactedIds(blocks) == {blocks[i].id : i \in {j \in DOMAIN blocks : Redactable(blocks[j])}}
TypesetIds(blocks) == {blocks[i].id : i \in {j \in DOMAIN blocks : Typesettable(blocks[j])}}

\* one page of render_pdf_style_aware's page loop over the source document
RenderPage ==
    /\ pc = "render" /\ ridx <= Len(il)
    /\ LET blocks == PageData(written.pages, ridx - 1)
       IN  /\ redacted' = redacted \cup RedactedIds(blocks)
           /\ typeset' = typeset \cup TypesetIds(blocks)
    /\ ridx' = ridx + 1
    /\ UNCHANGED <<impl, il, data, out_pages, written, failed_pages, total_blocks,
                   translated_blocks, pidx, pc, idle, callGap>>
    /\ UNCHANGED pageVars
    /\ UNCHANGED <<heurVars, pipeVars, appVars>>

\* the log and the output document are saved after the last page
RenderSave ==
    /\ pc = "render" /\ ridx > Len(il)
    /\ pc' = "done"
    /\ UNCHANGED <<impl, il, data, out_pages, written, failed_pages, total_blocks,
                   translated_blocks, pidx, idle, callGap>>
    /\ UNCHANGED pageVars
    /\ UNCHANGED renderVars
    /\ UNCHANGED <<heurVars, pipeVars, appVars>>

Next ==
    \/ StartPageV2 \/ CallServiceV2 \/ AttemptAcceptedV2 \/ AttemptRaisedV2 \/ BackoffV2
    \/ HandleResultV2 \/ SaveV2
    \/ StartPageV1 \/ CallServiceV1 \/ AttemptAcceptedV1 \/ AttemptRaisedV1 \/ BackoffV1
    \/ SkipFailedPageV1 \/ MergeCrashV1 \/ MergePageV1 \/ SaveV1
    \/ RenderPage \/ RenderSave

Spec == Init /\ [][Next]_vars


\* ============================================== classification and sizing
\* Lengths are in points; font sizes are in hundredths of a point, so that
\* the steps of the fit loop (0.5, 0.25, 0.1) are whole numbers.

\* str.lower() on the letters A..Z
Lower(text) ==
    [i \in DOMAIN text |-> IF text[i] \in 65..90 THEN text[i] + 32 ELSE text[i]]

\* Variant: the content has to be the marker itself
StartsWithExact(text, prefix) == text = prefix

\* str.startswith(prefix)
StartsWith(text, prefix) ==
    /\ Len(prefix) <= Len(text)
    /\ \A i \in DOMAIN prefix : text[i] = prefix[i]

\* "figure", "table", "fig", "tab", U+5716, U+8868
CaptionPrefixes ==
    { <<102, 105, 103, 117, 114, 101>>, <<116, 97, 98, 108, 101>>,
      <<102, 105, 103>>, <<116, 97, 98>>, <<22294>>, <<34920>> }

\* Variant: the caption rule is tried before the heading and sidebar rules
classify_caption_first(style_data, bbox, page_idx) ==
    LET x0 == bbox[1]
        y0_fitz == bbox[2]
        width == bbox[3] - bbox[1]
        st == style_data.style
        content_lower == Lower(style_data.content)
    IN  IF \E prefix \in CaptionPrefixes : StartsWith(content_lower, prefix)
            THEN "caption"
        ELSE IF st.size > 1400 \/ (st.size > 1100 /\ st.bold) THEN "heading"
        ELSE IF width < 250 /\ (x0 > 350 \/ x0 < 100) THEN "sidebar"
        ELSE IF st.size < 1000 /\ width < 150 THEN "label"
        ELSE IF y0_fitz < 50 THEN "header"
        ELSE IF y0_fitz > 650 THEN "footer"
        ELSE "body"

\* bbox is [x0, y0_fitz, x1, y1_fitz], y measured from the top of the page
classify_block(style_data, bbox, page_idx) ==
    LET x0 == bbox[1]
        y0_fitz == bbox[2]
        width == bbox[3] - bbox[1]
        st == style_data.style
        content_lower == Lower(style_data.content)
    IN  IF st.size > 1400 \/ (st.size > 1100 /\ st.bold) THEN "heading"
        ELSE IF width < 250 /\ (x0 > 350 \/ x0 < 100) THEN "sidebar"
        ELSE IF \E prefix \in CaptionPrefixes : StartsWith(content_lower, prefix)
            THEN "caption"
        ELSE IF st.size < 1000 /\ width < 150 THEN "label"
        ELSE IF y0_fitz < 50 THEN "header"
        ELSE IF y0_fitz > 650 THEN "footer"
        ELSE "body"

Larger(a, b) == IF a >= b THEN a ELSE b
Smaller(a, b) == IF a <= b THEN a ELSE b

is_diagram_label(b_type, width, height, original_size) ==
    /\ b_type = "label"
    /\ width < 60
    /\ height < 18
    /\ original_size < 1100
    /\ original_size >= 600

\* Variant: no size is taken from the block's style and no tight-box rule
start_size_by_type(b_type, page_idx, rect_y0, width, height, original_size) ==
    IF b_type = "heading"
        THEN (IF page_idx = 0 /\ rect_y0 < 200 THEN 2400 ELSE 1600)
    ELSE IF b_type = "body"
        THEN (IF width < 130 \/ height < 20 THEN 900 ELSE 1050)
    ELSE 900

\* the geometry-based start size and the tight-space constraint after it;
\* width and height are the box before padding, rect_y0 the padded top edge
start_size(b_type, page_idx, rect_y0, width, height, original_size) ==
    LET geometric ==
            IF b_type = "heading"
                THEN (IF page_idx = 0 /\ rect_y0 < 200 THEN 2400 ELSE 1600)
            ELSE IF b_type = "caption" THEN 900
            ELSE IF b_type = "body"
                THEN (IF width < 130 \/ height < 20 THEN 900 ELSE 1050)
            ELSE IF b_type \in {"label", "sidebar", "table", "footer", "header"}
                THEN (IF is_diagram_label(b_type, width, height, original_size)
                      THEN Larger(original_size, 700)
                      ELSE 900)
            ELSE 1050
    IN  IF width < 40 /\ height < 15
        THEN (IF b_type = "label" /\ original_size < 1100 /\ original_size >= 600
              THEN Larger(geometric, 700)
              ELSE Smaller(geometric, 700))
        ELSE geometric

\* pdf_bbox = [x0, page_h - y1_fitz, x1, page_h - y0_fitz]
PdfBBox(bbox, page_h) == <<bbox[1], page_h - bbox[4], bbox[3], page_h - bbox[2]>>

\* Variant: the stored box taken as it is, without the axis conversion
FitzRectNoFlip(bbox, page_h) == bbox

\* fitz.Rect(x0, page_h - y1_pdf, x1, page_h - y0_pdf)
FitzRect(bbox, page_h) == <<bbox[1], page_h - bbox[4], bbox[3], page_h - bbox[2]>>

\* the start size of a block of the translated layer
BlockStartSize(block, page_idx, page_h) ==
    LET rect == FitzRect(block.bbox, page_h)
    IN  start_size(block.type, page_idx, rect[2] + 1,
                   rect[3] - rect[1], rect[4] - rect[2], block.style.size)

TextFigure3 ==
    <<70, 105, 103, 117, 114, 101, 32, 51, 58, 32, 114, 101, 115, 117, 108, 116, 115>>
TextBiao2 == <<34920, 32, 50>>
TextHello == <<72, 101, 108, 108, 111>>

SampleSizes == {800, 1050, 1200, 1800}
SampleLefts == {50, 200, 380}
SampleWidths == {30, 100, 200, 300}
SampleTops == {20, 150, 300, 700}
SampleHeights == {10, 15, 30}
SampleContents == {TextFigure3, TextBiao2, TextHello}
SampleTypes == {"heading", "caption", "body", "label", "sidebar", "table", "footer", "header"}

HeurInputs ==
    [size : SampleSizes, bold : BOOLEAN, x0 : SampleLefts, width : SampleWidths,
     y0_fitz : SampleTops, height : SampleHeights, content : SampleContents,
     page_idx : {0, 1}, page_h : {792}, b_type : SampleTypes]

HeurBBox(in) == <<in.x0, in.y0_fitz, in.x0 + in.width, in.y0_fitz + in.height>>

HeurInit ==
    /\ h_in \in HeurInputs
    /\ h_type = ""
    /\ h_size = 0
    /\ TransIdle
    /\ PipeIdle
    /\ AppIdle

\* extraction classifies the block
ClassifyBlock ==
    /\ h_in # <<>> /\ h_type = ""
    /\ h_type' = classify_block([content |-> h_in.content,
                                 style |-> [size |-> h_in.size, bold |-> h_in.bold]],
                                HeurBBox(h_in), h_in.page_idx)
    /\ UNCHANGED <<h_in, h_size>>
    /\ UNCHANGED <<transVars, pipeVars, appVars>>

\* the renderer computes the start size of a block of type b_type in that box
ComputeStartSize ==
    /\ h_type # "" /\ h_size = 0
    /\ h_size' = BlockStartSize([type |-> h_in.b_type,
                                 bbox |-> PdfBBox(HeurBBox(h_in), h_in.page_h),
                                 style |-> [size |-> h_in.size, bold |-> h_in.bold]],
                                h_in.page_idx, h_in.page_h)
    /\ UNCHANGED <<h_in, h_type>>
    /\ UNCHANGED <<transVars, pipeVars, appVars>>

HeurNext == ClassifyBlock \/ ComputeStartSize

HeurSpec == HeurInit /\ [][HeurNext]_vars


\* ============================ the tools run one after another in one directory
\* backend_wrapper runs extract_il_v2.py, translate_il_v2.py and
\* render_pdf_v2.py in a fresh directory that holds the fonts and the source
\* as somatosensory.pdf; validate_render.py is run by hand in the directory.
\* Each tool finds its input by a fixed name in the working directory.
F_FONTS == "fonts"
F_PDF == "somatosensory.pdf"
F_IL_V2 == "intermediate_layer_v2.json"
F_IL == "intermediate_layer.json"
F_TRANSLATED == "translated_layer.json"
F_LOG == "rendering_log.json"
F_OUT == "final_output.pdf"

FileNames == {F_FONTS, F_PDF, F_IL_V2, F_IL, F_TRANSLATED, F_LOG, F_OUT}

\* by: the tool that wrote the file, "prior" for a file that was in the
\* directory before the run
Absent == [exists |-> FALSE, by |-> "", body |-> <<>>]
Stored(by, body) == [exists |-> TRUE, by |-> by, body |-> body]

\* ------------------------------------------------------------ the source
RawBlock(bbox, size, bold, content) ==
    [bbox |-> bbox, size |-> size, bold |-> bold, color |-> 0, content |-> content]

RawBody == RawBlock(<<200, 300, 300, 315>>, 1050, FALSE, TextHello)
RawWide == RawBlock(<<200, 300, 420, 340>>, 1050, FALSE, TextA)
RawTitle == RawBlock(<<100, 60, 500, 90>>, 1800, FALSE, TextEn)
RawSide == RawBlock(<<380, 400, 580, 440>>, 1200, FALSE, TextHello)
RawCaption == RawBlock(<<150, 500, 400, 515>>, 900, FALSE, TextFigure3)

RawPage(blocks) == [width |-> 612, height |-> 792, blocks |-> blocks]

RawDocs ==
    { <<RawPage(<<RawBody>>)>>,
      <<RawPage(<<RawTitle, RawBody>>)>>,
      <<RawPage(<<RawBody, RawWide>>)>>,
      <<RawPage(<<RawTitle>>), RawPage(<<RawSide, RawCaption>>)>>,
      <<RawPage(<<>>)>> }

\* ------------------------------------------------------------ extraction
\* block_id = f"p{p_idx}_x{int(x0)}_y{int(page_h - y0_fitz)}"
block_id(p_idx, bbox, page_h) == <<p_idx, bbox[1], page_h - bbox[2]>>

block_entry(b, p_idx, page_h) ==
    [id |-> block_id(p_idx, b.bbox, page_h),
     type |-> classify_block([content |-> b.content,
                              style |-> [size |-> b.size, bold |-> b.bold]],
                             b.bbox, p_idx),
     bbox |-> PdfBBox(b.bbox, page_h),
     content |-> b.content,
     style |-> [size |-> b.size, color |-> b.color, bold |-> b.bold],
     metadata |-> [page |-> p_idx,
                   width |-> b.bbox[3] - b.bbox[1],
                   height |-> b.bbox[4] - b.bbox[2]]]

ExtractPage(rawpage, p_idx) ==
    LET kept == SelectSeq(rawpage.blocks, LAMBDA b : b.content # <<>>)
    IN  [page_index |-> p_idx,
         width |-> rawpage.width,
         height |-> rawpage.height,
         blocks |-> [k \in DOMAIN kept |-> block_entry(kept[k], p_idx, rawpage.height)]]

ExtractDoc(doc) == [p \in DOMAIN doc |-> ExtractPage(doc[p], p - 1)]

\* ----------------------------------------------------------- translation
\* What the service answers for a page on every attempt: a translation of
\* every block, one that leaves out the last block, one whose first item is
\* blank, or an error.
OutcomeKinds == {"full", "omit", "blank", "failed"}

FullResponse(translatable) ==
    [i \in DOMAIN translatable |-> [id |-> translatable[i].id, content |-> TextZh]]

PipelineResponse(translatable, kind) ==
    IF kind = "omit"
        THEN SubSeq(FullResponse(translatable), 1, Len(translatable) - 1)
    ELSE IF kind = "blank"
        THEN [FullResponse(translatable) EXCEPT ![1].content = <<SP>>]
    ELSE FullResponse(translatable)

\* translate_page_blocks under that service
PageResult(blocks, kind) ==
    LET translatable == Translatable(blocks)
        r == JsonResp(PipelineResponse(translatable, kind))
    IN  IF translatable = <<>> THEN Blocks(<<>>)
        ELSE IF kind = "failed" \/ ~AcceptedV2(r) THEN None
        ELSE Blocks(MergeTranslations(translatable, r.translated_blocks))

\* one pass of translate_il_v2's page loop
TranslatedPage(page_data, kind) ==
    IF PageResult(page_data.blocks, kind) = None
    THEN FailedPageEntry(page_data)
    ELSE TranslatedPageEntry(page_data, PageResult(page_data.blocks, kind).blocks)

\* --------------------------------------------------------------- the run
EmptyLog == [rendered_blocks |-> <<>>, failed_blocks |-> <<>>]
NoReport == [ran |-> FALSE, total_extracted |-> 0, rendered |-> 0, failed |-> 0,
             missing |-> 0, pass |-> FALSE]

\* The directory holds the source; the fonts are complete or not; an
\* intermediate_layer.json of the same source may be there from before.
PipeInit ==
    /\ raw \in RawDocs
    /\ \E fonts \in BOOLEAN, prior \in BOOLEAN :
          fs = [n \in FileNames |->
                   IF n = F_PDF THEN Stored("prior", <<>>)
                   ELSE IF n = F_FONTS /\ fonts THEN Stored("prior", <<>>)
                   ELSE IF n = F_IL /\ prior THEN Stored("prior", ExtractDoc(raw))
                   ELSE Absent]
    /\ stage = "extract"
    /\ reads = <<>>
    /\ rpage = 0 /\ rblock = 0 /\ fit = 0 /\ fontsize = 0 /\ target_size = 0
    /\ rendering_log = EmptyLog
    /\ drawn = <<>>
    /\ report = NoReport
    /\ TransIdle
    /\ HeurIdle
    /\ AppIdle

Lookup(by, name) ==
    [by |-> by, name |-> name, found |-> fs[name].exists, written_by |-> fs[name].by]

\* extract_pdf_style_aware
ExtractStage ==
    /\ stage = "extract"
    /\ reads' = Append(reads, Lookup("extract", F_PDF))
    /\ fs' = [fs EXCEPT ![F_IL_V2] = Stored("extract", ExtractDoc(raw))]
    /\ stage' = "translate"
    /\ UNCHANGED <<raw, rpage, rblock, fit, fontsize, target_size, rendering_log,
                   drawn, report>>
    /\ UNCHANGED <<transVars, heurVars, appVars>>

\* translate_il_v2: without its input file it prints an error and returns
TranslateStage ==
    /\ stage = "translate"
    /\ reads' = Append(reads, Lookup("translate", F_IL))
    /\ IF ~fs[F_IL].exists
       THEN fs' = fs
       ELSE \E kinds \in [DOMAIN fs[F_IL].body -> OutcomeKinds] :
               fs' = [fs EXCEPT ![F_TRANSLATED] =
                         Stored("translate",
                                [p \in DOMAIN fs[F_IL].body |->
                                    TranslatedPage(fs[F_IL].body[p], kinds[p])])]
    /\ stage' = "render"
    /\ UNCHANGED <<raw, rpage, rblock, fit, fontsize, target_size, rendering_log,
                   drawn, report>>
    /\ UNCHANGED <<transVars, heurVars, appVars>>

\* -------------------------------------------------------------- rendering
min_size == 300

\* insert_textbox returns rc >= 0 at the sizes up to the largest one at which
\* the text fits the box; 0: it fits at no size
FitSizes == {2400, 575, 300, 0}

\* Variant: the loop goes on while the size is positive
LoopContinuesWhilePositive(size) == size > 0

\* while fontsize >= min_size
LoopContinues(size) == size >= min_size

\* the adaptive step
\* Variant: the size is not reduced after a failed attempt
NextSizeStuck(size) == size

NextSize(size) ==
    IF size > 1000 THEN size - 50
    ELSE IF size > 600 THEN size - 25
    ELSE size - 10

\* Variant: a size equal to the floor counts as exhausted too
ExhaustedAtFloor(size) == size <= min_size

\* if fontsize < min_size, after the loop
Exhausted(size) == size < min_size

\* round(fontsize, 2): sizes are whole hundredths here
Round2(size) == size

\* Variant: the box after padding
RectSizePadded(rect) == <<rect[3] - rect[1] - 4, rect[4] - rect[2] - 2>>

\* f"{width:.1f}x{height:.1f}" of the box before padding
RectSize(rect) == <<rect[3] - rect[1], rect[4] - rect[2]>>

rendered_entry(block, page_idx, rect, size, target) ==
    [id |-> block.id,
     page |-> page_idx + 1,
     type |-> block.type,
     fontsize |-> Round2(size),
     target_size |-> Round2(target),
     rect_size |-> RectSize(rect)]

failed_entry(block, page_idx, rect, target) ==
    [id |-> block.id,
     page |-> page_idx + 1,
     type |-> block.type,
     content_preview |-> clean_text(block.content),
     rect_size |-> RectSize(rect),
     target_size |-> Round2(target)]

SrcPages == Len(raw)
CurBlocks == PageData(fs[F_TRANSLATED].body, rpage)
CurBlock == CurBlocks[rblock]
CurRect == FitzRect(CurBlock.bbox, raw[rpage + 1].height)

\* the checks before any page: fonts, source, translated layer
RenderStart ==
    /\ stage = "render"
    /\ IF ~fs[F_FONTS].exists \/ ~fs[F_PDF].exists
       THEN /\ stage' = "validate"
            /\ UNCHANGED <<reads, rendering_log, rpage>>
       ELSE /\ reads' = Append(reads, Lookup("render", F_TRANSLATED))
            /\ IF ~fs[F_TRANSLATED].exists
               THEN stage' = "validate" /\ UNCHANGED <<rendering_log, rpage>>
               ELSE /\ rendering_log' = EmptyLog
                    /\ rpage' = 0
                    /\ stage' = "page"
    /\ UNCHANGED <<raw, fs, rblock, fit, fontsize, target_size, drawn, report>>
    /\ UNCHANGED <<transVars, heurVars, appVars>>

\* for page_idx in range(len(src_doc))
RenderNextPage ==
    /\ stage = "page"
    /\ IF rpage < SrcPages
       THEN rblock' = 1 /\ stage' = "block"
       ELSE rblock' = rblock /\ stage' = "save_log"
    /\ UNCHANGED <<raw, fs, reads, rpage, fit, fontsize, target_size, rendering_log,
                   drawn, report>>
    /\ UNCHANGED <<transVars, heurVars, appVars>>

\* for block in blocks: the type and content filters, then the start size
RenderStartBlock ==
    /\ stage = "block"
    /\ IF rblock > Len(CurBlocks)
       THEN /\ rpage' = rpage + 1
            /\ stage' = "page"
            /\ UNCHANGED <<rblock, fit, fontsize, target_size>>
       ELSE IF ~Typesettable(CurBlock)
       THEN /\ rblock' = rblock + 1
            /\ UNCHANGED <<rpage, stage, fit, fontsize, target_size>>
       ELSE /\ target_size' = BlockStartSize(CurBlock, rpage, raw[rpage + 1].height)
            /\ fontsize' = target_size'
            /\ fit' \in FitSizes
            /\ stage' = IF LoopContinues(fontsize') THEN "fit" ELSE "after_loop"
            /\ UNCHANGED <<rpage, rblock>>
    /\ UNCHANGED <<raw, fs, reads, rendering_log, drawn, report>>
    /\ UNCHANGED <<transVars, heurVars, appVars>>

\* one pass of the fitting loop: insert_textbox at fontsize
FitAttempt ==
    /\ stage = "fit"
    /\ IF fontsize <= fit
       THEN /\ drawn' = Append(drawn, [id |-> CurBlock.id, fontsize |-> fontsize,
                                       forced |-> FALSE])
            /\ rendering_log' =
                  [rendering_log EXCEPT !.rendered_blocks =
                      Append(@, rendered_entry(CurBlock, rpage, CurRect,
                                               fontsize, target_size))]
            /\ stage' = "after_loop"
            /\ UNCHANGED fontsize
       ELSE /\ fontsize' = NextSize(fontsize)
            /\ stage' = IF LoopContinues(fontsize') THEN "fit" ELSE "after_loop"
            /\ UNCHANGED <<drawn, rendering_log>>
    /\ UNCHANGED <<raw, fs, reads, rpage, rblock, fit, target_size, report>>
    /\ UNCHANGED <<transVars, heurVars, appVars>>

\* after the loop: when the sizes are exhausted the block is logged as failed
\* and rendered at min_size anyway
AfterLoop ==
    /\ stage = "after_loop"
    /\ IF Exhausted(fontsize)
       THEN /\ rendering_log' =
                  [rendering_log EXCEPT !.failed_blocks =
                      Append(@, failed_entry(CurBlock, rpage, CurRect, target_size))]
            /\ drawn' = Append(drawn, [id |-> CurBlock.id, fontsize |-> min_size,
                                       forced |-> TRUE])
       ELSE UNCHANGED <<rendering_log, drawn>>
    /\ rblock' = rblock + 1
    /\ stage' = "block"
    /\ UNCHANGED <<raw, fs, reads, rpage, fit, fontsize, target_size, report>>
    /\ UNCHANGED <<transVars, heurVars, appVars>>

\* json.dump(rendering_log), then dst_doc.save
RenderSaveLog ==
    /\ stage = "save_log"
    /\ fs' = [fs EXCEPT ![F_LOG] = Stored("render", rendering_log),
                        ![F_OUT] = Stored("render", <<>>)]
    /\ stage' = "validate"
    /\ UNCHANGED <<raw, reads, rpage, rblock, fit, fontsize, target_size,
                   rendering_log, drawn, report>>
    /\ UNCHANGED <<transVars, heurVars, appVars>>

\* ------------------------------------------------------------- validation
PassThreshold == 95

TextBlocks(pages) ==
    UNION { {<<p, k>> : k \in {j \in DOMAIN pages[p].blocks :
                                  pages[p].blocks[j].type \notin NonTextTypes}}
            : p \in DOMAIN pages }

extracted_ids(pages) == {pages[pk[1]].blocks[pk[2]].id : pk \in TextBlocks(pages)}
LogIds(entries) == {entries[i].id : i \in DOMAIN entries}

\* Variant: an empty document counts as fully covered
coverage_pass_when_empty(n_rendered, total_extracted) ==
    n_rendered * 100 >= PassThreshold * total_extracted

\* success_rate = len(rendered_ids) / total_extracted * 100 if total_extracted > 0
\* else 0; success_rate >= 95
coverage_pass(n_rendered, total_extracted) ==
    total_extracted > 0 /\ n_rendered * 100 >= PassThreshold * total_extracted

validate_rendering ==
    LET pages == fs[F_IL_V2].body
        rendered_ids == LogIds(fs[F_LOG].body.rendered_blocks)
        failed_ids == LogIds(fs[F_LOG].body.failed_blocks)
        total_extracted == Cardinality(TextBlocks(pages))
        missing_ids == (extracted_ids(pages) \ rendered_ids) \ failed_ids
    IN  [ran |-> TRUE,
         total_extracted |-> total_extracted,
         rendered |-> Cardinality(rendered_ids),
         failed |-> Cardinality(failed_ids),
         missing |-> Cardinality(missing_ids),
         pass |-> coverage_pass(Cardinality(rendered_ids), total_extracted)]

ValidateStage ==
    /\ stage = "validate"
    /\ reads' = reads \o <<Lookup("validate", F_IL_V2), Lookup("validate", F_LOG)>>
    /\ report' = IF fs[F_IL_V2].exists /\ fs[F_LOG].exists
                 THEN validate_rendering
                 ELSE NoReport
    /\ stage' = "done"
    /\ UNCHANGED <<raw, fs, rpage, rblock, fit, fontsize, target_size, rendering_log,
                   drawn>>
    /\ UNCHANGED <<transVars, heurVars, appVars>>

PipeNext ==
    \/ ExtractStage \/ TranslateStage
    \/ RenderStart \/ RenderNextPage \/ RenderStartBlock \/ FitAttempt \/ AfterLoop
    \/ RenderSaveLog
    \/ ValidateStage

PipeSpec == PipeInit /\ [][PipeNext]_vars

\* Each tool is a sequential program that runs to its end: a step that can
\* be taken is taken.
PipeLiveSpec == PipeInit /\ [][PipeNext]_vars /\ WF_vars(PipeNext)

\* ================================================== the application
\* ------------------------------------------------- run_pipeline_subprocess
Tools == <<"extract", "translate", "render">>

\* possible_names
PossibleNames == {"final_output.pdf", "final_output_consistent.pdf", "output_tc.pdf"}

NoDir == [exists |-> FALSE, files |-> {}]

\* Variant: the directory is left as it is
rmtree_skipped(dir) == dir

\* shutil.rmtree(temp_dir, ignore_errors=True)
rmtree(dir) == NoDir

\* Variant: the first candidate name is taken without looking
OutputAssumed(files) == TRUE

\* some candidate of possible_names exists in temp_dir
OutputFound(files) == files \cap PossibleNames # {}

\* What a tool does in the directory it is run in: whether it found what it
\* needs, its exit code and the files it wrote.  A tool that misses an input
\* prints a message and returns from its main function.
\* extract_il_v2.py; a file that is not a PDF ends it with the exception of
\* fitz.open
extract_run(files, readable) ==
    IF F_PDF \notin files
        THEN [tool |-> "extract", pre |-> FALSE, rc |-> 0, wrote |-> {}]
    ELSE IF ~readable
        THEN [tool |-> "extract", pre |-> TRUE, rc |-> 1, wrote |-> {}]
    ELSE [tool |-> "extract", pre |-> TRUE, rc |-> 0, wrote |-> {F_IL_V2}]

\* translate_il_v2.py
translate_run(files) ==
    IF F_IL \notin files
        THEN [tool |-> "translate", pre |-> FALSE, rc |-> 0, wrote |-> {}]
    ELSE [tool |-> "translate", pre |-> TRUE, rc |-> 0, wrote |-> {F_TRANSLATED}]

\* render_pdf_v2.py
render_run(files) ==
    IF {F_FONTS, F_PDF, F_TRANSLATED} \subseteq files
        THEN [tool |-> "render", pre |-> TRUE, rc |-> 0, wrote |-> {F_LOG, F_OUT}]
    ELSE [tool |-> "render", pre |-> FALSE, rc |-> 0, wrote |-> {}]

RunTool(tool, files, readable) ==
    IF tool = "extract" THEN extract_run(files, readable)
    ELSE IF tool = "translate" THEN translate_run(files)
    ELSE render_run(files)

NextStep(tool) ==
    IF tool = "extract" THEN "translate"
    ELSE IF tool = "translate" THEN "render"
    ELSE "collect"

\* -------------------------------------------------------------- the pages
NoUpload == [name |-> "", content |-> "", read |-> FALSE]
NoConfig == [source_filename |-> "", target_language |-> ""]
NoResult == [original_pdf_path |-> "", translated_pdf_path |-> "", status |-> ""]

UploadNames == {"a.pdf", "b.pdf"}
Contents == {"pdf", "damaged"}
Languages == {"Chinese (Traditional - HK)", "English"}
MaxChat == 5

\* what st.file_uploader can return
Uploads == [name : UploadNames, content : Contents, read : {TRUE}]

\* Variant: the demo button stores no file object
MockFileMissing == NoUpload

\* class MockFile: name = demo_file
MockFile == [name |-> F_PDF, content |-> "pdf", read |-> FALSE]

\* get_sample_chat_history()
SampleChat == <<"assistant", "user", "assistant">>

AppInit ==
    /\ session_state = [step |-> "upload", uploaded_file |-> NoUpload,
                        config |-> NoConfig, result |-> NoResult,
                        chat_history |-> <<>>]
    /\ environ \in [fonts : BOOLEAN, api_key : BOOLEAN, has_demo : BOOLEAN]
    /\ wpc = "idle" /\ running = ""
    /\ temp_dir = NoDir /\ runs = <<>> /\ outcome = "" /\ project_output = FALSE
    /\ TransIdle
    /\ HeurIdle
    /\ PipeIdle

\* one run of the script on the upload page: what the uploader holds and
\* whether the button shown was clicked
step1_upload ==
    /\ session_state.step = "upload" /\ wpc = "idle"
    /\ \E uploaded \in Uploads \cup {NoUpload}, clicked \in BOOLEAN :
          IF uploaded # NoUpload
          THEN LET new == \/ session_state.uploaded_file = NoUpload
                          \/ uploaded.name # session_state.uploaded_file.name
               IN  session_state' =
                       [step |-> IF clicked THEN "configure" ELSE "upload",
                        uploaded_file |-> uploaded,
                        config |-> IF new THEN NoConfig ELSE session_state.config,
                        result |-> IF new THEN NoResult ELSE session_state.result,
                        chat_history |-> IF new THEN <<>>
                                         ELSE session_state.chat_history]
          ELSE IF environ.has_demo /\ clicked
          THEN session_state' = [step |-> "configure", uploaded_file |-> MockFile,
                                 config |-> NoConfig, result |-> NoResult,
                                 chat_history |-> <<>>]
          ELSE session_state' = session_state
    /\ UNCHANGED <<environ, wpc, running, temp_dir, runs, outcome, project_output>>
    /\ UNCHANGED <<transVars, heurVars, pipeVars>>

\* one run of the script on the configuration page: the form is not
\* submitted, or one of its two buttons is
step2_configuration ==
    /\ session_state.step = "configure" /\ wpc = "idle"
    /\ session_state.uploaded_file # NoUpload
    /\ \E button \in {"none", "back", "start"}, target_language \in Languages :
          session_state' =
              IF button = "back" THEN [session_state EXCEPT !.step = "upload"]
              ELSE IF button = "start"
              THEN [session_state EXCEPT
                       !.config = [source_filename |-> session_state.uploaded_file.name,
                                   target_language |-> target_language],
                       !.step = "workspace"]
              ELSE session_state
    /\ UNCHANGED <<environ, wpc, running, temp_dir, runs, outcome, project_output>>
    /\ UNCHANGED <<transVars, heurVars, pipeVars>>

\* one run of the script on the workspace page, up to the call of
\* run_pipeline_subprocess when there is no result yet
step3_workspace ==
    /\ session_state.step = "workspace" /\ wpc = "idle"
    /\ \E action \in {"none", "back", "chat", "new"} :
          IF session_state.result = NoResult
          THEN IF ~environ.api_key
               THEN /\ session_state' =
                          IF action = "back"
                          THEN [session_state EXCEPT !.step = "configure"]
                          ELSE session_state
                    /\ UNCHANGED <<wpc, temp_dir, runs, outcome>>
               ELSE /\ wpc' = "mkdtemp"
                    /\ temp_dir' = NoDir /\ runs' = <<>> /\ outcome' = ""
                    /\ session_state' = session_state
          ELSE /\ session_state' =
                     IF action = "chat" /\ Len(session_state.chat_history) < MaxChat
                     THEN [session_state EXCEPT
                              !.chat_history = @ \o <<"user", "assistant">>]
                     ELSE IF action = "new"
                     THEN [step |-> "upload", uploaded_file |-> NoUpload,
                           config |-> NoConfig, result |-> NoResult,
                           chat_history |-> <<>>]
                     ELSE session_state
               /\ UNCHANGED <<wpc, temp_dir, runs, outcome>>
    /\ UNCHANGED <<environ, running, project_output>>
    /\ UNCHANGED <<transVars, heurVars, pipeVars>>

\* temp_dir = tempfile.mkdtemp(prefix="pdf2pdf_")
Mkdtemp ==
    /\ wpc = "mkdtemp"
    /\ temp_dir' = [exists |-> TRUE, files |-> {}]
    /\ wpc' = "setup"
    /\ UNCHANGED <<session_state, environ, running, runs, outcome, project_output>>
    /\ UNCHANGED <<transVars, heurVars, pipeVars>>

\* the fonts are copied, or the call raises; the input is copied as
\* somatosensory.pdf
SandboxSetup ==
    /\ wpc = "setup"
    /\ IF environ.fonts
       THEN /\ temp_dir' = [temp_dir EXCEPT !.files = {F_FONTS, F_PDF}]
            /\ wpc' = "extract"
            /\ outcome' = outcome
       ELSE /\ temp_dir' = rmtree(temp_dir)
            /\ wpc' = "ended"
            /\ outcome' = "raised"
    /\ UNCHANGED <<session_state, environ, running, runs, project_output>>
    /\ UNCHANGED <<transVars, heurVars, pipeVars>>

\* subprocess.run(...) starts the tool and waits for it
Launch ==
    /\ wpc \in {"extract", "translate", "render"} /\ running = ""
    /\ running' = wpc
    /\ UNCHANGED <<session_state, environ, wpc, temp_dir, runs, outcome, project_output>>
    /\ UNCHANGED <<transVars, heurVars, pipeVars>>

\* the tool has ended: if result.returncode != 0: raise
ToolExit ==
    /\ running # ""
    /\ LET r == RunTool(running, temp_dir.files,
                        session_state.uploaded_file.content = "pdf")
       IN  /\ runs' = Append(runs, r)
           /\ IF r.rc # 0
              THEN /\ temp_dir' = rmtree(temp_dir)
                   /\ wpc' = "ended"
                   /\ outcome' = "raised"
              ELSE /\ temp_dir' = [temp_dir EXCEPT !.files = @ \cup r.wrote]
                   /\ wpc' = NextStep(running)
                   /\ outcome' = outcome
    /\ running' = ""
    /\ UNCHANGED <<session_state, environ, project_output>>
    /\ UNCHANGED <<transVars, heurVars, pipeVars>>

\* the output is looked for under its possible names, copied to
\* translated_output.pdf and the directory removed; without an output the
\* call raises and the except clause removes the directory
Standardize ==
    /\ wpc = "collect"
    /\ IF OutputFound(temp_dir.files)
       THEN /\ project_output' = TRUE
            /\ outcome' = "returned"
       ELSE /\ project_output' = project_output
            /\ outcome' = "raised"
    /\ temp_dir' = rmtree(temp_dir)
    /\ wpc' = "ended"
    /\ UNCHANGED <<session_state, environ, running, runs>>
    /\ UNCHANGED <<transVars, heurVars, pipeVars>>

\* the workspace page after the call: the result is stored, or the error is
\* shown with the button that leads back
step3_after_pipeline ==
    /\ wpc = "ended"
    /\ \E back \in BOOLEAN :
          session_state' =
              IF outcome = "returned"
              THEN [session_state EXCEPT
                       !.result = [original_pdf_path |-> session_state.uploaded_file.name,
                                   translated_pdf_path |-> "translated_output.pdf",
                                   status |-> "completed"],
                       !.chat_history = SampleChat]
              ELSE IF back THEN [session_state EXCEPT !.step = "configure"]
              ELSE session_state
    /\ wpc' = "idle"
    /\ UNCHANGED <<environ, running, temp_dir, runs, outcome, project_output>>
    /\ UNCHANGED <<transVars, heurVars, pipeVars>>

AppNext ==
    \/ step1_upload \/ step2_configuration \/ step3_workspace
    \/ Mkdtemp \/ SandboxSetup \/ Launch \/ ToolExit \/ Standardize
    \/ step3_after_pipeline

AppSpec == AppInit /\ [][AppNext]_vars


\* ============================================================ properties
Range(s) == {s[i] : i \in DOMAIN s}

\* the pages the stage is going to write: output_data["pages"] in v2, the
\* document rewritten in place in v1
OutPages == IF impl = "v2" THEN out_pages ELSE data

\* the page loop has just dealt with the result of the page before pidx
JustHandled == pc = "loop" /\ pidx > 1 /\ result # Unset
EmittedBlocks == OutPages[pidx - 1].blocks
InputBlocks == il[pidx - 1].blocks

RespIds == {resp.translated_blocks[i].id : i \in DOMAIN resp.translated_blocks}

\* the translation function returned a block list for the response in resp
ResponseAccepted ==
    /\ resp.kind = "json"
    /\ pc \in {"returned", "crashed", "loop"}

HasBlock(blocks, id) == \E j \in DOMAIN blocks : blocks[j].id = id
HasBlockWith(blocks, id, text) ==
    \E j \in DOMAIN blocks : blocks[j].id = id /\ blocks[j].content = text

\* C1: when an accepted response leaves out the id of a block that was sent,
\* the block is still in the page's output, with the content it had before
\* translation, once the page loop has dealt with the response.
C1_OmittedBlockKeptWithOriginal ==
    (ResponseAccepted /\ JustHandled) =>
        \A i \in DOMAIN batch :
            batch[i].id \notin RespIds =>
                HasBlockWith(EmittedBlocks, batch[i].id, batch[i].content)

\* C2: every block id of the input is a block id of the written output, on
\* the same page, and a block's content differs from the input only when the
\* service's response carried that id.
C2_IdRoundTrip ==
    /\ written.exists =>
          \A p \in DOMAIN il :
              \A i \in DOMAIN il[p].blocks :
                  HasBlock(written.pages[p].blocks, il[p].blocks[i].id)
    /\ JustHandled =>
          \A i \in DOMAIN InputBlocks :
              \A j \in DOMAIN EmittedBlocks :
                  (/\ EmittedBlocks[j].id = InputBlocks[i].id
                   /\ EmittedBlocks[j].content # InputBlocks[i].content)
                  => (resp.kind = "json" /\ InputBlocks[i].id \in RespIds)

\* C3: a page whose attempts were all used up is carried unchanged into the
\* output and its number is recorded in failed_pages; a page number is in
\* failed_pages only when every one of the max_retries calls for it failed.
C3_ExhaustedPageCarriedUnchanged ==
    /\ \A n \in Range(failed_pages) :
          n < pidx /\ n \in DOMAIN OutPages /\ OutPages[n] = il[n]
    /\ written.exists => \A n \in Range(failed_pages) : written.pages[n] = il[n]
    /\ JustHandled => ((pidx - 1 \in Range(failed_pages)) <=> result = None)
    /\ result = None => (calls = max_retries /\ attempt = max_retries)

C3_Witness ==
    /\ written.exists
    /\ Len(il) = 2
    /\ failed_pages = <<1>>
    /\ written.pages[1] = il[1]

\* C4: an exhausted page never aborts the stage, and the stage always ends by
\* writing an output with one page entry per input page, in order, each with
\* the page_index, width and height of the input page.
C4_StageAlwaysWritesEveryPage ==
    /\ pc # "crashed"
    /\ pc \in {"render", "done"} =>
          /\ written.exists
          /\ pidx = Len(il) + 1
          /\ Len(written.pages) = Len(il)
          /\ \A p \in DOMAIN il :
                /\ written.pages[p].page_index = il[p].page_index
                /\ written.pages[p].width = il[p].width
                /\ written.pages[p].height = il[p].height

Doubling == <<1, 2, 4, 8, 16>>
Min(a, b) == IF a <= b THEN a ELSE b

RetryLoopBounded ==
    /\ calls <= max_retries /\ attempt <= max_retries
    /\ pc = "retry" => (attempt < max_retries /\ calls = attempt)
    /\ pc \in {"called", "except"} => calls = attempt + 1
    /\ (ResponseAccepted /\ result # Unset) =>
          (result # None /\ calls = attempt + 1)
    /\ result = None => (calls = max_retries /\ attempt = max_retries)
    /\ (pc = "returned" /\ attempt = max_retries) => result = None
    /\ \A i \in DOMAIN waits : waits[i] = [after |-> i - 1, secs |-> Doubling[i]]

\* C5: translating a page makes at most max_retries service calls, stops at
\* the first accepted response and returns the failed result after exactly
\* max_retries failed calls; the waits double (1, 2, 4, ... seconds), one after
\* every failed attempt in translate_page_blocks and one after every failed
\* attempt that another attempt follows in translate_batch.
C5_RetryLoopTerminates ==
    /\ RetryLoopBounded
    /\ pc \in {"retry", "called", "except", "returned"} =>
          Len(waits) = IF impl = "v2" THEN attempt ELSE Min(attempt, max_retries - 1)

\* C5 as written: a wait follows every failed attempt.
C5_WaitAfterEveryFailedAttempt ==
    /\ RetryLoopBounded
    /\ pc \in {"retry", "called", "except", "returned"} => Len(waits) = attempt

C5_Witness ==
    /\ impl = "v1" /\ pc = "returned" /\ result = None
    /\ calls = max_retries /\ Len(waits) = max_retries - 1
    /\ waits[4].secs = 8

NoTargetScript(translated) ==
    \A i \in DOMAIN translated :
        \A j \in DOMAIN ItemContent(translated[i]) :
            ItemContent(translated[i])[j] < 19968 \/ ItemContent(translated[i])[j] > 40959

RejectedClass ==
    /\ resp.kind = "json"
    /\ (resp.translated_blocks = <<>> \/ NoTargetScript(resp.translated_blocks))

\* what the page loop has produced so far
Produced == <<data, out_pages, written, translated_blocks>>

\* C6: a response whose list is empty or holds no character of U+4E00..U+9FFF
\* is never returned or merged: the attempt fails, and a failed attempt is
\* followed by the next attempt or by the failed result, whatever made it fail.
C6_UntranslatedResponseRejected ==
    /\ [](RejectedClass => (pc \in {"called", "except"} /\ result = Unset))
    /\ [][(RejectedClass /\ pc = "called") => pc' = "except"]_vars
    /\ [][pc = "except" =>
            /\ attempt' = attempt + 1
            /\ Produced' = Produced
            /\ \/ pc' = "retry" /\ result' = Unset
               \/ pc' = "returned" /\ result' = None /\ attempt' = max_retries]_vars

C6_Witness ==
    /\ pc = "except"
    /\ resp.kind = "json"
    /\ resp.translated_blocks # <<>>
    /\ NoTargetScript(resp.translated_blocks)
    /\ \E i \in DOMAIN resp.translated_blocks :
          ItemContent(resp.translated_blocks[i]) # <<>>

WellFormed(translated) ==
    \A i \in DOMAIN translated : DOMAIN translated[i] = {"id", "content"}

MismatchAlone ==
    /\ resp.kind = "json"
    /\ resp.translated_blocks # <<>>
    /\ ~NoTargetScript(resp.translated_blocks)
    /\ WellFormed(resp.translated_blocks)
    /\ Len(resp.translated_blocks) # Len(batch)

ReturnedText(text) == IF impl = "v2" THEN V2Clean(text) ELSE text

\* C7: a response that differs from the request only in how many items it
\* has is accepted on that attempt, and its items are merged by id.
C7_CardinalityMismatchAccepted ==
    MismatchAlone =>
        /\ pc \in {"called", "returned", "loop"}
        /\ pc \in {"returned", "loop"} =>
              (result # Unset /\ result # None /\ calls = attempt + 1)
        /\ JustHandled =>
              \A i \in DOMAIN batch :
                  batch[i].id \in RespIds =>
                      \E k \in DOMAIN resp.translated_blocks :
                          /\ resp.translated_blocks[k].id = batch[i].id
                          /\ HasBlockWith(EmittedBlocks, batch[i].id,
                                 ReturnedText(resp.translated_blocks[k].content))

C7_Witness ==
    /\ MismatchAlone /\ JustHandled
    /\ \E i \in DOMAIN batch :
          /\ batch[i].id \in RespIds
          /\ ~HasBlockWith(EmittedBlocks, batch[i].id, batch[i].content)

SameFrame(b, b0) ==
    /\ b.id = b0.id
    /\ b.type = b0.type
    /\ b.bbox = b0.bbox
    /\ b.style = b0.style
    /\ b.metadata = b0.metadata

FramePreserved(pages) ==
    \A p \in DOMAIN pages :
        \A j \in DOMAIN pages[p].blocks :
            \E i \in DOMAIN il[p].blocks : SameFrame(pages[p].blocks[j], il[p].blocks[i])

\* C8: every block the stage emits has the id, type, bbox and style of the
\* input block with the same id; translation changes the content only.
C8_OnlyContentChanges ==
    /\ FramePreserved(OutPages)
    /\ written.exists => FramePreserved(written.pages)

C8_Witness ==
    /\ written.exists
    /\ \E p \in DOMAIN written.pages :
          \E j \in DOMAIN written.pages[p].blocks :
              \E i \in DOMAIN il[p].blocks :
                  /\ written.pages[p].blocks[j].id = il[p].blocks[i].id
                  /\ written.pages[p].blocks[j].content # il[p].blocks[i].content
                  /\ written.pages[p].blocks[j].style = il[p].blocks[i].style

\* C9: between the last service call for one page and the first service call
\* for the next page the stage sleeps at least the fixed inter-page delay.
C9_MinimumDelayBetweenPages ==
    (callGap.from # 0 /\ callGap.to = callGap.from + 1) => callGap.gap >= InterPageDelay

ImageChartIds ==
    UNION { {il[p].blocks[i].id :
                i \in {k \in DOMAIN il[p].blocks : il[p].blocks[k].type \in NonTextTypes}}
            : p \in DOMAIN il }

\* C10: image and chart blocks are never part of a translation request, are
\* never redacted or typeset by the renderer, and have the content after the
\* pipeline that they had after extraction.
C10_ImageChartUntouched ==
    /\ \A i \in DOMAIN Payload(batch) : Payload(batch)[i].type \notin NonTextTypes
    /\ (redacted \cup typeset) \cap ImageChartIds = {}
    /\ written.exists =>
          \A p \in DOMAIN il :
              \A i \in DOMAIN il[p].blocks :
                  il[p].blocks[i].type \in NonTextTypes =>
                      HasBlockWith(written.pages[p].blocks, il[p].blocks[i].id,
                                   il[p].blocks[i].content)

\* ------------------------------------------- classification and sizing
Classified == h_type # ""
Sized == h_size # 0

HeadingRule == h_in.size > 1400 \/ (h_in.size > 1100 /\ h_in.bold)
SidebarRule == h_in.width < 250 /\ (h_in.x0 > 350 \/ h_in.x0 < 100)
MarkerRule == \E m \in CaptionPrefixes : StartsWith(Lower(h_in.content), m)
LabelRule == h_in.size < 1000 /\ h_in.width < 150

DecisionList ==
    << [hit |-> HeadingRule, type |-> "heading"],
       [hit |-> SidebarRule, type |-> "sidebar"],
       [hit |-> MarkerRule, type |-> "caption"],
       [hit |-> LabelRule, type |-> "label"],
       [hit |-> h_in.y0_fitz < 50, type |-> "header"],
       [hit |-> h_in.y0_fitz > 650, type |-> "footer"],
       [hit |-> TRUE, type |-> "body"] >>

FirstMatch(rules) ==
    rules[CHOOSE i \in DOMAIN rules :
              rules[i].hit /\ \A j \in 1..(i - 1) : ~rules[j].hit].type

\* C16: classify_block returns the type of the first rule that matches, in the
\* order heading, sidebar, caption, label, header, footer, body; size 18
\* non-bold gives heading, and width 200 at left edge 380 with size 12 non-bold
\* gives sidebar.
C16_FirstMatchingRuleWins ==
    Classified =>
        /\ h_type = FirstMatch(DecisionList)
        /\ (h_in.size = 1800 /\ ~h_in.bold) => h_type = "heading"
        /\ (h_in.width = 200 /\ h_in.x0 = 380 /\ h_in.size = 1200 /\ ~h_in.bold)
              => h_type = "sidebar"

C16_Witness ==
    /\ h_type = "sidebar"
    /\ h_in.width = 200 /\ h_in.x0 = 380 /\ h_in.size = 1200 /\ ~h_in.bold
    /\ h_in.content = TextFigure3

\* C17: a block whose content is "Figure 3: results" is classified caption
\* when neither the heading rule nor the sidebar rule matches it, whatever
\* else its size, bold flag and box are; it is classified heading when the
\* heading rule matches and sidebar when only the sidebar rule does.
C17_FigureCaptionUnlessHeadingOrSidebar ==
    (Classified /\ h_in.content = TextFigure3) =>
        /\ HeadingRule => h_type = "heading"
        /\ (~HeadingRule /\ SidebarRule) => h_type = "sidebar"
        /\ (~HeadingRule /\ ~SidebarRule) => h_type = "caption"

\* C17 as written: "Figure 3: results" is classified caption for every size,
\* bold flag and box.
C17_FigureCaptionAlways ==
    (Classified /\ h_in.content = TextFigure3) => h_type = "caption"

C17_Witness ==
    /\ h_in.content = TextFigure3
    /\ h_in.size = 800 /\ h_in.width = 100 /\ h_in.x0 = 200
    /\ h_type = "caption"

TightBox == h_in.width < 40 /\ h_in.height < 15
LabelStyleSize == h_in.size >= 600 /\ h_in.size < 1100
NearTopOfFirstPage == h_in.page_idx = 0 /\ h_in.y0_fitz + 1 < 200
NarrowOrShort == h_in.width < 130 \/ h_in.height < 20

\* the start size by type and box alone
SizeByTypeAndBox ==
    IF h_in.b_type = "heading" THEN (IF NearTopOfFirstPage THEN 2400 ELSE 1600)
    ELSE IF h_in.b_type = "body" THEN (IF NarrowOrShort THEN 900 ELSE 1050)
    ELSE 900

\* C19: the start size is the size by type and box (heading 16, or 24 near the
\* top of page index 0; caption, label, sidebar 9; body 10.5, or 9 in a narrow
\* or short box) except that a label in a box under 60 x 18 whose original
\* size is in [6, 11) starts at its original size, at least 7, and that in a
\* box under 40 x 15 every other block starts at 7.
C19_StartSizeRule ==
    Sized =>
        IF h_in.b_type = "label" /\ LabelStyleSize /\ h_in.width < 60 /\ h_in.height < 18
        THEN h_size = (IF h_in.size >= 700 THEN h_in.size ELSE 700)
        ELSE IF TightBox THEN h_size = 700
        ELSE h_size = SizeByTypeAndBox

\* C19 as written: the start size depends on type and box only.
C19_StartSizeByTypeAndBoxOnly ==
    (Sized /\ h_in.b_type \in {"heading", "caption", "label", "sidebar", "body"})
        => h_size = SizeByTypeAndBox

C19_Witness ==
    /\ h_in.b_type = "label" /\ h_in.width = 30 /\ h_in.height = 10
    /\ h_in.size = 800
    /\ h_size = 800

\* ------------------------------------------------ rendering and validation
Last(seq) == seq[Len(seq)]

\* C11: within one block the sizes at which a layout is attempted strictly
\* decrease, and every attempted size is at least the floor of 3.0pt and at
\* most the block's start size.
C11_MonotonicShrink ==
    /\ [](stage = "fit" => (fontsize >= 300 /\ fontsize <= target_size))
    /\ [][(stage = "fit" /\ stage' = "fit") =>
             (fontsize' < fontsize /\ fontsize' >= 300)]_vars

C11_Witness ==
    stage = "fit" /\ target_size = 2400 /\ fontsize = 300

LaidOut(blocks) == SelectSeq(blocks, LAMBDA b : Typesettable(b))

RECURSIVE LaidOutOnPages(_)
LaidOutOnPages(n) ==
    IF n = 0 THEN <<>>
    ELSE LaidOutOnPages(n - 1) \o LaidOut(PageData(fs[F_TRANSLATED].body, n - 1))

\* the blocks the typesetting pass has finished with
AttemptedSoFar ==
    IF stage \in {"block", "fit"}
    THEN LaidOutOnPages(rpage) \o LaidOut(SubSeq(CurBlocks, 1, rblock - 1))
    ELSE LaidOutOnPages(rpage)

FittedDraws == SelectSeq(drawn, LAMBDA d : ~d.forced)
ForcedDraws == SelectSeq(drawn, LAMBDA d : d.forced)

OneEntryEach ==
    /\ Len(drawn) = Len(AttemptedSoFar)
    /\ \A i \in DOMAIN drawn : drawn[i].id = AttemptedSoFar[i].id
    /\ Len(rendering_log.rendered_blocks) = Len(FittedDraws)
    /\ \A i \in DOMAIN FittedDraws :
          /\ rendering_log.rendered_blocks[i].id = FittedDraws[i].id
          /\ rendering_log.rendered_blocks[i].fontsize = FittedDraws[i].fontsize
    /\ Len(rendering_log.failed_blocks) = Len(ForcedDraws)
    /\ \A i \in DOMAIN ForcedDraws :
          /\ rendering_log.failed_blocks[i].id = ForcedDraws[i].id
          /\ ForcedDraws[i].fontsize = 300

\* C12: every block the typesetting pass has attempted has exactly one log
\* entry: in rendered_blocks, with the size that fit, when an attempted size
\* fit, and otherwise in failed_blocks, after a forced render at the floor.
C12_OneLogEntryPerAttemptedBlock ==
    /\ [](stage \in {"page", "block", "fit", "save_log", "validate", "done"}
             => OneEntryEach)
    /\ [][(stage = "fit" /\ fontsize <= fit) =>
             /\ Len(rendering_log'.rendered_blocks) = Len(rendering_log.rendered_blocks) + 1
             /\ Last(rendering_log'.rendered_blocks).fontsize = fontsize
             /\ rendering_log'.failed_blocks = rendering_log.failed_blocks]_vars
    /\ [][Len(rendering_log'.failed_blocks) > Len(rendering_log.failed_blocks) =>
             /\ fit < 300
             /\ rendering_log'.rendered_blocks = rendering_log.rendered_blocks
             /\ Last(drawn').forced /\ Last(drawn').fontsize = 300]_vars

C12_Witness ==
    /\ stage = "save_log"
    /\ Len(rendering_log.rendered_blocks) = 1
    /\ Len(rendering_log.failed_blocks) = 1
    /\ rendering_log.rendered_blocks[1].id # rendering_log.failed_blocks[1].id

\* C13: the validator's counts satisfy fitted + forced + missing = number of
\* translatable blocks extracted.
C13_CoverageCountsAddUp ==
    report.ran =>
        report.rendered + report.failed + report.missing = report.total_extracted

\* C14: when rendering completed and wrote its log, the validator reports
\* missing = 0.
C14_NothingMissingAfterRender ==
    (stage = "done" /\ fs[F_LOG].exists /\ fs[F_LOG].by = "render") =>
        (report.ran /\ report.missing = 0)

\* C15: when the rendering stage has ended, a render log written by it is in
\* the directory and records the blocks rendered so far.
C15_LogAlwaysWritten ==
    stage \in {"validate", "done"} =>
        (fs[F_LOG].exists /\ fs[F_LOG].by = "render" /\ fs[F_LOG].body = rendering_log)

ForcedBody100x15 ==
    /\ stage = "block"
    /\ drawn # <<>> /\ Last(drawn).forced
    /\ Last(rendering_log.failed_blocks).type = "body"
    /\ Last(rendering_log.failed_blocks).rect_size = <<100, 15>>

ForcedAtFloorAndLogged ==
    /\ Last(drawn).fontsize = 300
    /\ Last(drawn).id = Last(rendering_log.failed_blocks).id
    /\ Len(rendering_log.rendered_blocks) + Len(rendering_log.failed_blocks) = Len(drawn)

\* C18: a body block of box 100 x 15 whose text fits at no size has target
\* size 9 (the box is narrow and short), is rendered at 3.0pt, and is in
\* failed_blocks, not in rendered_blocks, with box 100 x 15 and target size 9.
C18_ForcedBodyBlockLogged ==
    [](ForcedBody100x15 =>
          /\ ForcedAtFloorAndLogged
          /\ target_size = 900
          /\ Last(rendering_log.failed_blocks).target_size = 900)
    /\ [][(stage = "after_loop" /\ fontsize < 300 /\ CurBlock.type = "body"
           /\ CurBlock.bbox[3] - CurBlock.bbox[1] = 100
           /\ CurBlock.bbox[4] - CurBlock.bbox[2] = 15) =>
             /\ Last(rendering_log'.failed_blocks).rect_size = <<100, 15>>
             /\ rendering_log'.rendered_blocks = rendering_log.rendered_blocks]_vars

\* C18 as written: the target size of that block is 10.5.
C18_ForcedBodyBlockTarget105 ==
    ForcedBody100x15 =>
        /\ ForcedAtFloorAndLogged
        /\ target_size = 1050
        /\ Last(rendering_log.failed_blocks).target_size = 1050

C18_Witness ==
    /\ ForcedBody100x15
    /\ target_size = 900
    /\ Last(drawn).fontsize = 300
    /\ Len(rendering_log.rendered_blocks) = 0

\* C20: the translation stage reads the file the extraction stage wrote in
\* this run, and the rendering stage reads the file the translation stage
\* wrote in this run.
C20_EachStageReadsItsPredecessor ==
    \A i \in DOMAIN reads :
        /\ reads[i].by = "translate" => (reads[i].found /\ reads[i].written_by = "extract")
        /\ reads[i].by = "render" => (reads[i].found /\ reads[i].written_by = "translate")

\* ------------------------------------------- coordinates, coverage, ids
StoredInDocumentSpace ==
    fs[F_IL_V2].exists =>
        \A p \in DOMAIN raw : \A k \in DOMAIN raw[p].blocks :
            LET b == raw[p].blocks[k].bbox
                H == raw[p].height
            IN  fs[F_IL_V2].body[p].blocks[k].bbox = <<b[1], H - b[4], b[3], H - b[2]>>

TranslationKeepsBoxes ==
    (fs[F_TRANSLATED].exists /\ fs[F_IL].exists) =>
        \A p \in DOMAIN fs[F_TRANSLATED].body :
            \A k \in DOMAIN fs[F_TRANSLATED].body[p].blocks :
                \E j \in DOMAIN fs[F_IL].body[p].blocks :
                    /\ fs[F_IL].body[p].blocks[j].id = fs[F_TRANSLATED].body[p].blocks[k].id
                    /\ fs[F_IL].body[p].blocks[j].bbox = fs[F_TRANSLATED].body[p].blocks[k].bbox

RendererRecoversRasterBox ==
    stage \in {"fit", "after_loop"} =>
        \E k \in DOMAIN raw[rpage + 1].blocks :
            /\ block_id(rpage, raw[rpage + 1].blocks[k].bbox, raw[rpage + 1].height) = CurBlock.id
            /\ raw[rpage + 1].blocks[k].bbox = CurRect

\* C23: extraction stores each box as [x0, H - y1, x1, H - y0], translation
\* leaves the box untouched, and the renderer's conversion with the same H
\* gives back the block's original raster rectangle.
C23_CoordinateRoundTrip ==
    StoredInDocumentSpace /\ TranslationKeepsBoxes /\ RendererRecoversRasterBox

C23_Witness ==
    /\ stage = "fit"
    /\ rpage = 1
    /\ CurRect = <<380, 400, 580, 440>>
    /\ CurBlock.bbox = <<380, 352, 580, 392>>

\* C24: the validator reports pass exactly when the number of ids in
\* rendered_blocks is at least 95% of the number of translatable blocks
\* extracted; forced and missing blocks do not count as fitted (in these
\* documents of fewer than 20 blocks one of them is enough to fail), and a
\* document with no translatable block fails.
C24_PassIffFittedShareAtLeast95 ==
    report.ran =>
        /\ report.rendered = Cardinality(LogIds(fs[F_LOG].body.rendered_blocks))
        /\ report.total_extracted = Cardinality(TextBlocks(fs[F_IL_V2].body))
        /\ report.pass <=> (/\ report.total_extracted > 0
                            /\ report.rendered * 100 >= 95 * report.total_extracted)
        /\ report.pass => (report.failed = 0 /\ report.missing = 0)
        /\ report.total_extracted = 0 => ~report.pass

C24_Witness ==
    /\ report.ran /\ report.pass
    /\ report.total_extracted = 2 /\ report.rendered = 2

\* C25: once the rendering stage has passed its precondition checks it
\* eventually saves the output document, also when a page was left
\* untranslated or a block fit at no size.
C25_RenderingEventuallySaves ==
    (stage = "page") ~> (stage = "validate" /\ fs[F_OUT].exists /\ fs[F_OUT].by = "render")

C25_Witness ==
    /\ fs[F_OUT].exists /\ fs[F_OUT].by = "render"
    /\ rendering_log.failed_blocks # <<>>
    /\ rendering_log.rendered_blocks # <<>>
    /\ \E p \in DOMAIN fs[F_TRANSLATED].body :
          /\ fs[F_TRANSLATED].body[p].blocks # <<>>
          /\ fs[F_TRANSLATED].body[p] = fs[F_IL].body[p]

\* C26: within one extracted document two distinct blocks never have the
\* same id.
C26_BlockIdsAreAKey ==
    fs[F_IL_V2].exists =>
        \A p, q \in DOMAIN fs[F_IL_V2].body :
            \A k \in DOMAIN fs[F_IL_V2].body[p].blocks :
                \A l \in DOMAIN fs[F_IL_V2].body[q].blocks :
                    fs[F_IL_V2].body[p].blocks[k].id = fs[F_IL_V2].body[q].blocks[l].id
                        => (p = q /\ k = l)

\* C27: every block whose rectangle the redaction pass marks is typeset by
\* the typesetting pass of the same page.
C27_RedactedBlocksAreTypeset ==
    redacted \subseteq typeset

\* ------------------------------------------------ order of the output
IdsOf(blocks) == [i \in DOMAIN blocks |-> blocks[i].id]

RECURSIVE IsSubsequence(_, _)
IsSubsequence(a, b) ==
    IF a = <<>> THEN TRUE
    ELSE IF b = <<>> THEN FALSE
    ELSE IF Head(a) = Head(b) THEN IsSubsequence(Tail(a), Tail(b))
    ELSE IsSubsequence(a, Tail(b))

\* C28: on every output page the sequence of block ids is a subsequence of
\* the input page's sequence of block ids; a response item with an id that
\* was not sent, or with an id that another item has too, adds no block.
C28_OutputIdsSubsequenceOfInput ==
    \A p \in DOMAIN OutPages :
        IsSubsequence(IdsOf(OutPages[p].blocks), IdsOf(il[p].blocks))

C28_Witness ==
    /\ impl = "v2" /\ ResponseAccepted /\ JustHandled
    /\ Len(resp.translated_blocks) = 2
    /\ \/ ForeignId \in RespIds
       \/ resp.translated_blocks[1].id = resp.translated_blocks[2].id
    /\ Len(EmittedBlocks) = 1

\* ---------------------------------------------------- the application
ToolsOf(rs) == [i \in DOMAIN rs |-> rs[i].tool]
IsPrefix(a, b) == Len(a) <= Len(b) /\ a = SubSeq(b, 1, Len(a))
ToolIndex(t) == CHOOSE i \in DOMAIN Tools : Tools[i] = t

\* the tool ended with an error code or without writing what it is there for
StepFailed(r) == r.rc # 0 \/ r.wrote = {}

\* C21: in run_pipeline_subprocess a tool is started only after the tools
\* before it have ended, in the order extract, translate, render; after a
\* step that failed no later tool writes a result, and the call raises
\* instead of returning an output path.
C21_StageSequential ==
    /\ IsPrefix(ToolsOf(runs), Tools)
    /\ running # "" => ToolsOf(runs) = SubSeq(Tools, 1, ToolIndex(running) - 1)
    /\ \A i, j \in DOMAIN runs :
          (i < j /\ StepFailed(runs[i])) => runs[j].wrote = {}
    /\ (wpc = "ended" /\ (runs = <<>> \/ \E i \in DOMAIN runs : StepFailed(runs[i])))
          => (outcome = "raised" /\ ~project_output)

C21_Witness ==
    /\ wpc = "ended" /\ outcome = "raised"
    /\ Len(runs) = 3
    /\ ~StepFailed(runs[1]) /\ StepFailed(runs[2])
    /\ runs[3].wrote = {}

\* C22: a tool that misses its source file, its fonts or the file of the
\* stage before it writes none of its output files and ends with a
\* non-zero exit code.
C22_PreconditionFailureIsSignalled ==
    \A i \in DOMAIN runs :
        ~runs[i].pre => (runs[i].wrote = {} /\ runs[i].rc # 0)

\* C29: when the call of run_pipeline_subprocess has ended, by return or by
\* raise, the temporary directory it made is gone, and translated_output.pdf
\* is written only by a call that returns.
C29_NoSandboxLeftBehind ==
    /\ [](wpc \in {"ended", "idle"} => (~temp_dir.exists /\ temp_dir.files = {}))
    /\ [](outcome = "raised" => ~temp_dir.exists)
    /\ [][project_output' # project_output => outcome' = "returned"]_vars

C29_Witness ==
    /\ wpc = "ended" /\ outcome = "raised"
    /\ Len(runs) = 1 /\ runs[1].rc = 1
    /\ ~temp_dir.exists /\ ~project_output

Cleared(ss) == ss.result = NoResult /\ ss.config = NoConfig /\ ss.chat_history = <<>>

WorkflowInvariant ==
    /\ session_state.step \in {"upload", "configure", "workspace"}
    /\ session_state.step = "configure" => session_state.uploaded_file # NoUpload
    /\ session_state.step = "workspace" =>
          (session_state.uploaded_file # NoUpload /\ session_state.config # NoConfig)
    /\ session_state.result # NoResult => session_state.step = "workspace"

StartNewClears ==
    (session_state.step = "workspace" /\ session_state'.step = "upload") =>
        (Cleared(session_state') /\ session_state'.uploaded_file = NoUpload)

====
